---- MODULE Spec2Model ----
(***************************************************************************)
(* A model of srt_tool_pro.py: the SRT text transformation                 *)
(* (process_srt_text, apply_glossary, the line classifiers), the backup    *)
(* sidecar protocol (write_backup, revert_from_backup, clean_backup_files) *)
(* and the batch worker thread App._worker_run with the GUI handlers that  *)
(* run beside it (Start, Stop, the log poll, Revert, Clean).               *)
(*                                                                         *)
(* A text is a sequence of one-character strings.  The contents of a file  *)
(* are a record [enc, text]: the encoding the bytes are written in and the *)
(* text they decode to.                                                    *)
(***************************************************************************)
EXTENDS Integers, Sequences, FiniteSets, TLC

(***************************************************************************)
(* Characters                                                              *)
(***************************************************************************)
NL == "\n"
CR == "\r"
FF == "\f"
BS == "\\"

\* str.splitlines() boundaries (CR NL counts as one boundary)
LineBreaks == {NL, CR, FF}

\* str.strip() and the regex class \s
WhiteSpace == {" ", "\t"} \cup LineBreaks

\* the regex class \d
DecimalDigits == {"0", "1", "2", "3", "4", "5", "6", "7", "8", "9"}

\* str.isdigit() also accepts digits that are not decimal, such as superscripts
IsDigitChars == DecimalDigits \cup {"²"}

(***************************************************************************)
(* Sequence helpers                                                        *)
(***************************************************************************)
Slice(s, a, b) == IF a > b THEN <<>> ELSE SubSeq(s, a, b)

Drop(s, n) == Slice(s, n + 1, Len(s))

StartsWith(s, p) == Len(p) <= Len(s) /\ SubSeq(s, 1, Len(p)) = p

EndsWith(s, p) == Len(p) <= Len(s) /\ SubSeq(s, Len(s) - Len(p) + 1, Len(s)) = p

RECURSIVE LStrip(_)
LStrip(s) == IF s # <<>> /\ Head(s) \in WhiteSpace THEN LStrip(Tail(s)) ELSE s

RECURSIVE RStrip(_)
RStrip(s) ==
    IF s # <<>> /\ s[Len(s)] \in WhiteSpace THEN RStrip(SubSeq(s, 1, Len(s) - 1)) ELSE s

\* str.strip()
Strip(s) == RStrip(LStrip(s))

\* str.isdigit(): not empty and every character a digit
IsDigitStr(s) == s # <<>> /\ \A i \in 1..Len(s) : s[i] \in IsDigitChars

(***************************************************************************)
(* Line classification                                                     *)
(***************************************************************************)
is_index_line(line) == IsDigitStr(Strip(line))

\* \d{2}:\d{2}:\d{2},\d{3} at the head of s
StartsWithStamp(s) ==
    /\ Len(s) >= 12
    /\ \A i \in {1, 2, 4, 5, 7, 8, 10, 11, 12} : s[i] \in DecimalDigits
    /\ s[3] = ":" /\ s[6] = ":" /\ s[9] = ","

\* TIMECODE_RE.match(line): ^\s*STAMP\s*-->\s*STAMP\s*$
TimecodeMatch(line) ==
    LET a == LStrip(line)
        b == LStrip(Drop(a, 12))
        c == LStrip(Drop(b, 3))
        d == LStrip(Drop(c, 12))
    IN  /\ StartsWithStamp(a)
        /\ StartsWith(b, <<"-", "-", ">">>)
        /\ StartsWithStamp(c)
        /\ d = <<>>

is_timecode_line(line) == TimecodeMatch(line)

(***************************************************************************)
(* str.splitlines() and str.join()                                         *)
(***************************************************************************)
RECURSIVE SplitFrom(_, _)
SplitFrom(s, cur) ==
    IF s = <<>> THEN (IF cur = <<>> THEN <<>> ELSE <<cur>>)
    ELSE IF Head(s) \in LineBreaks
         THEN LET rest == IF Head(s) = CR /\ Len(s) >= 2 /\ s[2] = NL
                          THEN Tail(Tail(s)) ELSE Tail(s)
              IN  <<cur>> \o SplitFrom(rest, <<>>)
         ELSE SplitFrom(Tail(s), Append(cur, Head(s)))

\* content.splitlines(keepends=False)
SplitLines(s) == SplitFrom(s, <<>>)

RECURSIVE Join(_, _)
Join(lines, sep) ==
    IF lines = <<>> THEN <<>>
    ELSE IF Len(lines) = 1 THEN lines[1]
    ELSE lines[1] \o sep \o Join(Tail(lines), sep)

(***************************************************************************)
(* Glossary rules.  The pattern and replace fields hold whatever the       *)
(* glossary JSON held: a string, a number or null.                         *)
(***************************************************************************)
Str(s) == [t |-> "str", s |-> s]

JsonInt == [t |-> "int", s |-> <<>>]

JsonNull == [t |-> "null", s |-> <<>>]

\* GlossaryRule(pattern, replace, enabled)
GlossaryRule(p, r, e) == [pattern |-> p, replace |-> r, enabled |-> e]

\* a pattern of the default seed, (?i)(?<![A-Za-zÀ-ỹ])w1\s*w2(?![A-Za-zÀ-ỹ])|...,
\* as its alternatives; an alternative is its words, \s* standing between them
SeedPattern(alts) == [t |-> "regex", alts |-> alts]

\* Python truthiness of a field: a non-empty string or a non-zero number
Truthy(v) == (v.t = "str" /\ v.s # <<>>) \/ v.t = "int" \/ v.t = "regex"

\* re.compile(pattern): the patterns of the model are literal characters,
\* except "(", which opens a group that is never closed
PatternCompiles(p) == \A i \in 1..Len(p) : p[i] # "("

\* the replacement template of re.sub: \n is a line feed, \\ a backslash,
\* any other escape (or a trailing backslash) is a re.error
RECURSIVE ExpandTemplate(_)
ExpandTemplate(t) ==
    IF t = <<>> THEN [ok |-> TRUE, text |-> <<>>]
    ELSE IF Head(t) # BS
         THEN LET r == ExpandTemplate(Tail(t))
              IN  [ok |-> r.ok, text |-> <<Head(t)>> \o r.text]
    ELSE IF Len(t) >= 2 /\ t[2] \in {"n", BS}
         THEN LET r == ExpandTemplate(Tail(Tail(t)))
              IN  [ok |-> r.ok, text |-> <<(IF t[2] = "n" THEN NL ELSE BS)>> \o r.text]
    ELSE [ok |-> FALSE, text |-> <<>>]

\* every leftmost, non-overlapping occurrence of the literal p in s becomes r
RECURSIVE SubLiteral(_, _, _)
SubLiteral(p, r, s) ==
    IF s = <<>> THEN <<>>
    ELSE IF StartsWith(s, p) THEN r \o SubLiteral(p, r, Drop(s, Len(p)))
    ELSE <<Head(s)>> \o SubLiteral(p, r, Tail(s))

\* the characters of the model that [A-Za-zÀ-ỹ] holds (the range À-ỹ holds the
\* Greek letters too) and those that \s holds within a line
LetterClass ==
    {"a", "b", "c", "d", "e", "g", "h", "i", "m", "n", "o", "r", "t", "u", "x", "y",
     "I", "N", "U", "T", "ì", "ả", "ú", "Ú", "ù", "ứ", "ư", "α"}

LineSpace == {" ", "\t"}

\* (?i): the lower case of a character
Fold(c) ==
    IF c = "N" THEN "n" ELSE IF c = "U" THEN "u" ELSE IF c = "T" THEN "t"
    ELSE IF c = "I" THEN "i" ELSE IF c = "Ú" THEN "ú" ELSE c

\* how many characters of \s stand at the head of s
RECURSIVE LeadingSpace(_)
LeadingSpace(s) ==
    IF s # <<>> /\ Head(s) \in LineSpace THEN 1 + LeadingSpace(Tail(s)) ELSE 0

\* the length of the match of w1\s*w2... at the head of s, or -1
RECURSIVE MatchWords(_, _)
MatchWords(words, s) ==
    IF words = <<>> THEN 0
    ELSE LET w == Head(words)
         IN  IF Len(s) >= Len(w) /\ \A k \in 1..Len(w) : Fold(s[k]) = Fold(w[k])
             THEN LET rest == Drop(s, Len(w))
                      gap  == IF Len(words) > 1 THEN LeadingSpace(rest) ELSE 0
                      more == MatchWords(Tail(words), Drop(rest, gap))
                  IN  IF more < 0 THEN -1 ELSE Len(w) + gap + more
             ELSE -1

\* the length of the match of the first alternative that matches at the head
\* of s, prev being the character before it (<<>> at the start), or -1
RECURSIVE MatchSeed(_, _, _)
MatchSeed(alts, s, prev) ==
    IF alts = <<>> THEN -1
    ELSE LET n == MatchWords(Head(alts), s)
         IN  IF /\ n > 0
                /\ (prev = <<>> \/ prev[1] \notin LetterClass)
                /\ (n = Len(s) \/ s[n + 1] \notin LetterClass)
             THEN n
             ELSE MatchSeed(Tail(alts), s, prev)

\* every leftmost, non-overlapping match of the seed pattern in s becomes r
RECURSIVE SubSeed(_, _, _, _)
SubSeed(alts, r, s, prev) ==
    IF s = <<>> THEN <<>>
    ELSE LET n == MatchSeed(alts, s, prev)
         IN  IF n > 0 THEN r \o SubSeed(alts, r, Drop(s, n), <<s[n]>>)
             ELSE <<Head(s)>> \o SubSeed(alts, r, Tail(s), <<Head(s)>>)

\* re.sub(pattern, repl, string): the result, or the exception raised
re_sub(pattern, repl, string) ==
    IF pattern.t = "regex" /\ repl.t = "str" /\ ExpandTemplate(repl.s).ok
    THEN [exc |-> "none",
          text |-> SubSeed(pattern.alts, ExpandTemplate(repl.s).text, string, <<>>)]
    ELSE IF pattern.t # "str" \/ repl.t # "str" THEN [exc |-> "TypeError", text |-> string]
    ELSE IF ~PatternCompiles(pattern.s) \/ ~ExpandTemplate(repl.s).ok
         THEN [exc |-> "re.error", text |-> string]
    ELSE [exc |-> "none", text |-> SubLiteral(pattern.s, ExpandTemplate(repl.s).text, string)]

\* One pass of the loop of apply_glossary: [exc, text]
ApplyRule(r, acc) ==
    IF acc.exc # "none" THEN acc
    ELSE IF r.enabled /\ Truthy(r.pattern) /\ r.replace.t # "null"
         THEN LET res == re_sub(r.pattern, r.replace, acc.text)
              IN  IF res.exc = "re.error" THEN acc            \* except re.error: pass
                  ELSE res
    ELSE acc

RECURSIVE ApplyRules(_, _)
ApplyRules(rules, acc) ==
    IF rules = <<>> THEN acc ELSE ApplyRules(Tail(rules), ApplyRule(Head(rules), acc))

\* an apply_glossary that gives every rule the original line and returns
\* what the last rule made of it
apply_glossary_FromOriginal(line, rules) ==
    IF rules = <<>> THEN [exc |-> "none", text |-> line]
    ELSE ApplyRule(rules[Len(rules)], [exc |-> "none", text |-> line])

\* apply_glossary(line, rules): [exc, text]; exc # "none" is an exception that
\* leaves apply_glossary
apply_glossary(line, rules) == ApplyRules(rules, [exc |-> "none", text |-> line])

\* the branch of the loop of process_srt_text
IsPassThrough(line) ==
    is_index_line(line) \/ is_timecode_line(line) \/ Strip(line) = <<>>

\* out_lines of process_srt_text: one entry per input line
OutLine(line, rules) ==
    IF IsPassThrough(line) THEN [exc |-> "none", text |-> line]
    ELSE apply_glossary(line, rules)

\* process_srt_text(content, rules): [exc, text]
process_srt_text(content, rules) ==
    LET lines == SplitLines(content)
        outs  == [i \in 1..Len(lines) |-> OutLine(lines[i], rules)]
        bad   == {i \in 1..Len(lines) : outs[i].exc # "none"}
    IN  IF bad # {}
        THEN [exc |-> outs[CHOOSE i \in bad : \A j \in bad : i <= j].exc, text |-> <<>>]
        ELSE [exc  |-> "none",
              text |-> Join([i \in 1..Len(lines) |-> outs[i].text], <<NL>>)
                       \o (IF EndsWith(content, <<NL>>) THEN <<NL>> ELSE <<>>)]

(***************************************************************************)
(* GlossaryManager.  A JSON text is its parsed value, or NotJson when      *)
(* json.loads raises; a dict is its set of keys and the values the model   *)
(* reads from it.                                                          *)
(***************************************************************************)
\* a seed whose second rule makes what its first rule replaces
SeedRules_Chained ==
    << GlossaryRule(SeedPattern(<< <<<<"n", "u", "t">>>> >>),
                    Str(<<"n", "o", "d", "e">>), TRUE),
       GlossaryRule(SeedPattern(<< <<<<"h", "i", "n", "h">>, <<"a", "n", "h">>>> >>),
                    Str(<<"n", "u", "t">>), TRUE) >>

\* the rules of the default seed
SeedRules ==
    << GlossaryRule(SeedPattern(<< <<<<"h", "ì", "n", "h">>, <<"ả", "n", "h">>>>,
                                   <<<<"h", "i", "n", "h">>, <<"a", "n", "h">>>> >>),
                    Str(<<"I", "m", "a", "g", "e">>), TRUE),
       GlossaryRule(SeedPattern(<< <<<<"n", "ú", "t">>>>, <<<<"n", "u", "t">>>> >>),
                    Str(<<"n", "o", "d", "e">>), TRUE),
       GlossaryRule(SeedPattern(<< <<<<"t", "h", "ù", "n", "g">>, <<"c", "h", "ứ", "a">>>>,
                                   <<<<"t", "h", "ù", "n", "g">>, <<"c", "h", "ư", "a">>>>,
                                   <<<<"t", "h", "u", "n", "g">>, <<"c", "h", "u", "a">>>> >>),
                    Str(<<"c", "o", "n", "t", "a", "i", "n", "e", "r">>), TRUE) >>

NoFile == [k |-> "absent"]

NotJson == [k |-> "notjson"]

JsonNumber == [k |-> "number"]

\* a string that is not empty
JsonString == [k |-> "str"]

JsonList(items) == [k |-> "list", items |-> items]

\* a record of the rules array: the keys it holds and their values
JsonRecord(keys, p, r, e) ==
    [k |-> "dict", keys |-> keys, pattern |-> p, replace |-> r, enabled |-> e]

\* the top-level object, with the value of its "rules" key if it holds one
JsonDoc(keys, rules) == [k |-> "dict", keys |-> keys, rules |-> rules]

RuleKeys == {"pattern", "replace", "enabled", "notes"}

\* for r in v: the items, or a TypeError when v is not iterable; a dict gives
\* its keys, which are strings, and a string its characters
Iterate(v) ==
    IF v.k = "list" THEN [ok |-> TRUE, items |-> v.items]
    ELSE IF v.k = "str" THEN [ok |-> TRUE, items |-> <<JsonString>>]
    ELSE IF v.k = "dict"
         THEN [ok |-> TRUE, items |-> [i \in 1..Cardinality(v.keys) |-> JsonString]]
    ELSE [ok |-> FALSE, items |-> <<>>]

\* whether GlossaryRule(**r) returns: r is a mapping that holds pattern and
\* replace and no key that is not a field
Constructs(r) ==
    r.k = "dict" /\ {"pattern", "replace"} \subseteq r.keys /\ r.keys \subseteq RuleKeys

\* GlossaryRule(**r), enabled defaulting to True
FromRecord(r) ==
    GlossaryRule(r.pattern, r.replace, IF "enabled" \in r.keys THEN r.enabled ELSE TRUE)

\* [GlossaryRule(**r) for r in v]: [ok, rules], ok false when it raises
RulesFrom(v) ==
    LET it == Iterate(v)
    IN  IF it.ok /\ \A i \in 1..Len(it.items) : Constructs(it.items[i])
        THEN [ok |-> TRUE, rules |-> [i \in 1..Len(it.items) |-> FromRecord(it.items[i])]]
        ELSE [ok |-> FALSE, rules |-> <<>>]

\* asdict(r)
AsDict(r) == JsonRecord(RuleKeys, r.pattern, r.replace, r.enabled)

\* the payload of GlossaryManager.save
Payload(rules) ==
    JsonDoc({"rules"}, JsonList([i \in 1..Len(rules) |-> AsDict(rules[i])]))

\* the file after self.path.write_text(...): outcome is how the write goes
Saved(file, rules, outcome) ==
    IF outcome = "ok" THEN Payload(rules)
    ELSE IF outcome = "partial" THEN NotJson
    ELSE file

\* GlossaryManager.load: [rules, file, raised]; outcome is how the write of
\* save goes, when it is reached
load(file, outcome) ==
    IF file # NoFile
    THEN IF file.k = "dict"
         THEN LET got == RulesFrom(IF "rules" \in file.keys THEN file.rules
                                   ELSE JsonList(<<>>))
              IN  [rules |-> IF got.ok THEN got.rules ELSE <<>>,
                   file |-> file, raised |-> FALSE]
         ELSE [rules |-> <<>>, file |-> file, raised |-> FALSE]
    ELSE [rules |-> SeedRules, file |-> Saved(file, SeedRules, outcome),
          raised |-> outcome # "ok"]

\* GlossaryManager.import_json: [rules, file, raised], from the rules and
\* the file before the call and the parsed text of the imported file
import_json(rules, file, data, outcome) ==
    IF data = NotJson THEN [rules |-> rules, file |-> file, raised |-> TRUE]
    ELSE LET got == RulesFrom(IF data.k = "dict" /\ "rules" \in data.keys
                              THEN data.rules ELSE data)
         IN  IF ~got.ok THEN [rules |-> rules, file |-> file, raised |-> TRUE]
             ELSE [rules |-> got.rules, file |-> Saved(file, got.rules, outcome),
                   raised |-> outcome # "ok"]

NoGlossaryCall ==
    [op |-> "none", before |-> NoFile, data |-> NoFile, rules_before |-> <<>>,
     save |-> "none", raised |-> FALSE]

(***************************************************************************)
(* Bounds of the model                                                     *)
(***************************************************************************)
\* the .srt files under the root folder
NumFiles == 2

\* batch runs started in one behaviour
MaxRuns == 1

\* file system and database operations that fail in one behaviour
MaxFaults == 1

(***************************************************************************)
(* The folder, the files and their bytes                                   *)
(***************************************************************************)
Files == 1..NumFiles

\* file 1 lies directly under the root folder, the others in a subfolder
InSubfolder(f) == f > 1

Utf8(text) == [enc |-> "utf-8", text |-> text]

\* a legacy file: an odd number of bytes, one of them not valid UTF-8
Cp1258(text) == [enc |-> "cp1258", text |-> text]

\* bytes no candidate encoding decodes
Undecodable == [enc |-> "none", text |-> <<>>]

\* a file of zero bytes: what a write leaves that fails after the file was opened
EmptyBytes == Utf8(<<>>)

\* no file at that path
Absent == [enc |-> "absent", text |-> <<>>]

\* what the files hold when the application starts
InitialBytes == {Utf8(<<"1", NL, "a", NL>>), Cp1258(<<"b">>), Undecodable}

\* path.read_text(encoding=enc): whether the bytes decode
CanDecode(enc, bytes) ==
    \/ enc \in {"utf-8-sig", "utf-8"} /\ bytes.enc = "utf-8"
    \/ enc = "cp1258" /\ bytes.enc = "cp1258"

Candidates == <<"utf-8-sig", "utf-8", "utf-16", "utf-16-le", "utf-16-be", "cp1258">>

\* detect_encoding(path): the first candidate that decodes, or a UnicodeError;
\* read_ok is whether the file can be opened and read at all
detect_encoding(bytes, read_ok) ==
    LET ok == {i \in 1..Len(Candidates) : read_ok /\ CanDecode(Candidates[i], bytes)}
    IN  IF ok = {} THEN [exc |-> "UnicodeError", enc |-> "none", text |-> <<>>]
        ELSE [exc  |-> "none",
              enc  |-> Candidates[CHOOSE i \in ok : \A j \in ok : i <= j],
              text |-> bytes.text]

\* srt.write_text(transformed, encoding="utf-8")
EncodeUtf8(text) == Utf8(text)

\* the ascending sequence of the members of a set of files
RECURSIVE SortedSeq(_)
SortedSeq(S) ==
    IF S = {} THEN <<>>
    ELSE LET m == CHOOSE x \in S : \A y \in S : x <= y
         IN  <<m>> \o SortedSeq(S \ {m})

\* list(iter_srt_files(root, recursive)) for a root folder
iter_srt_files(recursive) == SortedSeq({f \in Files : recursive \/ ~InSubfolder(f)})

(***************************************************************************)
(* The glossary: rule objects, shared by reference between the GUI and a   *)
(* running worker.                                                         *)
(***************************************************************************)
RuleTable ==
    << [pattern |-> Str(<<"a">>), replace |-> Str(<<"b">>)],
       [pattern |-> Str(<<"b">>), replace |-> Str(<<"c">>)] >>

RuleIds == 1..Len(RuleTable)

\* self.glossary.rules, the enabled fields being en
RulesOf(en) ==
    [r \in RuleIds |-> GlossaryRule(RuleTable[r].pattern, RuleTable[r].replace, en[r])]

VARIABLES
    disk,            \* the bytes of each .srt file
    bak,             \* the bytes of each file's .bak sidecar, or Absent
    rule_enabled,    \* the enabled field of each rule object of the glossary
    running,         \* _set_running: Start disabled, Stop enabled
    stop_flag,       \* self._stop_flag
    log_queue,       \* self._log_queue
    txt_log,         \* self.txt_log, what the poll has shown
    history,         \* the rows of HistoryDB
    after_pending,   \* self.after(0, self._set_running, False) not yet run
    pc,              \* where the worker thread is
    w_args,          \* the arguments of _worker_run
    w_files,         \* files
    w_i,             \* i
    w_changed,       \* changed
    w_transformed,   \* transformed, while the file is being written
    run_log_lines,   \* run_log_lines
    runs,            \* how many runs were started
    faults,          \* how many operations have failed so far
    snapshot_src,    \* history: the file's bytes when its sidecar was created
    call,            \* history: the call the last step made, and its result
    t_content,       \* the text given to process_srt_text
    t_rules,         \* the rules given to process_srt_text
    t_out,           \* what process_srt_text returned
    t_again,         \* what process_srt_text returned for that output
    g_file,          \* the parsed text of the glossary file, or NoFile
    g_rules,         \* GlossaryManager.rules
    g_call           \* history: the last call of GlossaryManager and its result

sysVars == <<disk, bak, rule_enabled, running, stop_flag, log_queue, txt_log, history,
             after_pending, pc, w_args, w_files, w_i, w_changed, w_transformed,
             run_log_lines, runs, faults, snapshot_src, call>>

textVars == <<t_content, t_rules, t_out, t_again>>

glossVars == <<g_file, g_rules, g_call>>

vars == <<sysVars, textVars, glossVars>>

workerVars == <<pc, w_args, w_files, w_i, w_changed, w_transformed, run_log_lines>>

NoArgs == [recursive |-> FALSE, dryrun |-> FALSE, backup |-> FALSE, rules |-> <<>>]

\* call: op is the operation, path its file, existed whether the sidecar of path
\* existed before, ret whether it returned normally (for revert_from_backup, the
\* value returned); for the two handlers that walk the sidecars, found are the
\* files whose sidecar was found and done those whose revert or unlink succeeded,
\* n_done and n_errors the two counts the loop kept
NoCall == [op |-> "none", path |-> 0, existed |-> FALSE, ret |-> FALSE,
           found |-> {}, done |-> {}, n_done |-> 0, n_errors |-> 0]

\* an entry of the log queue, of the log widget or of run_log_lines; run, the
\* number of the run that wrote it, is not part of the message
Event(tag, file, total, changed) ==
    [tag |-> tag, file |-> file, total |-> total, changed |-> changed, run |-> runs]

NoOutput == [exc |-> "not called", text |-> <<>>]

\* the application as it starts, the files holding d
SysInit(d) ==
    /\ disk = d
    /\ bak = [f \in Files |-> Absent]
    /\ rule_enabled = [r \in RuleIds |-> TRUE]
    /\ running = FALSE
    /\ stop_flag = FALSE
    /\ log_queue = <<>>
    /\ txt_log = <<>>
    /\ history = <<>>
    /\ after_pending = FALSE
    /\ pc = "idle"
    /\ w_args = NoArgs
    /\ w_files = <<>>
    /\ w_i = 0
    /\ w_changed = 0
    /\ w_transformed = <<>>
    /\ run_log_lines = <<>>
    /\ runs = 0
    /\ faults = 0
    /\ snapshot_src = [f \in Files |-> Absent]
    /\ call = NoCall

Init ==
    /\ \E d \in [Files -> InitialBytes] : SysInit(d)
    /\ t_content = <<>>
    /\ t_rules = <<>>
    /\ t_out = NoOutput
    /\ t_again = NoOutput
    /\ g_rules = RulesOf(rule_enabled)
    /\ g_file = Payload(g_rules)
    /\ g_call = NoGlossaryCall

\* n operations fail in this step
Failures(n) == faults + n <= MaxFaults /\ faults' = faults + n

(***************************************************************************)
(* The backup sidecar                                                      *)
(***************************************************************************)
\* how a write that raises leaves the file: not opened, or opened and cut short
WriteOutcomes == {"ok", "fail", "partial"}

\* write_backup(path): the sidecars after the call; outcome is how
\* bak.write_bytes(path.read_bytes()) goes, when it is reached
write_backup(f, outcome) ==
    IF bak[f] # Absent THEN bak
    ELSE IF outcome = "ok" THEN [bak EXCEPT ![f] = disk[f]]
    ELSE IF outcome = "partial" THEN [bak EXCEPT ![f] = EmptyBytes]
    ELSE bak

\* whether that call of write_backup raises
write_backup_raises(f, outcome) == bak[f] = Absent /\ outcome # "ok"

\* a revert_from_backup that reports success without looking at the copy
revert_from_backup_Unchecked(f, outcome) ==
    IF bak[f] = Absent THEN [ret |-> FALSE, bytes |-> disk[f]]
    ELSE [ret |-> TRUE,
          bytes |-> IF outcome = "ok" THEN bak[f]
                    ELSE IF outcome = "partial" THEN EmptyBytes
                    ELSE disk[f]]

\* revert_from_backup(path): [ret, bytes], the value returned and the bytes
\* of path after the call; outcome is how path.write_bytes(bak.read_bytes()) goes
revert_from_backup(f, outcome) ==
    IF bak[f] = Absent THEN [ret |-> FALSE, bytes |-> disk[f]]
    ELSE IF outcome = "ok" THEN [ret |-> TRUE, bytes |-> bak[f]]
    ELSE IF outcome = "partial" THEN [ret |-> FALSE, bytes |-> EmptyBytes]
    ELSE [ret |-> FALSE, bytes |-> disk[f]]

\* find_backup_files(root, recursive), as the files whose sidecar is found
find_backup_files(recursive) ==
    {f \in Files : bak[f] # Absent /\ (recursive \/ ~InSubfolder(f))}

\* a loop that gives up at the first sidecar it cannot delete
RECURSIVE CleanLoop_StopsAtFailure(_, _, _)
CleanLoop_StopsAtFailure(backup_files, failed, acc) ==
    IF backup_files = <<>> THEN acc
    ELSE LET f == Head(backup_files)
         IN  IF f \in failed THEN [acc EXCEPT !.errors = @ + 1]
             ELSE CleanLoop_StopsAtFailure(Tail(backup_files), failed,
                      [acc EXCEPT !.bak[f] = Absent, !.deleted = @ + 1])

\* the loop of clean_backup_files over backup_files, in order: [bak, deleted,
\* errors]; failed are the sidecars whose unlink raises
RECURSIVE CleanLoop(_, _, _)
CleanLoop(backup_files, failed, acc) ==
    IF backup_files = <<>> THEN acc
    ELSE LET f == Head(backup_files)
         IN  CleanLoop(Tail(backup_files), failed,
                       IF f \in failed
                       THEN [acc EXCEPT !.errors = @ + 1]
                       ELSE [acc EXCEPT !.bak[f] = Absent, !.deleted = @ + 1])

\* clean_backup_files(root, recursive)
clean_backup_files(recursive, failed) ==
    CleanLoop(SortedSeq(find_backup_files(recursive)), failed,
              [bak |-> bak, deleted |-> 0, errors |-> 0])

(***************************************************************************)
(* The handlers of the GUI thread                                          *)
(***************************************************************************)
\* active_rules = [r for r in self.glossary.rules if r.enabled]
ActiveRules == SelectSeq([i \in RuleIds |-> i], LAMBDA r : rule_enabled[r])

\* App._start, with the three check boxes as the user left them
Start(recursive, dryrun, backup) ==
    /\ ~running
    /\ runs < MaxRuns
    /\ stop_flag' = FALSE
    /\ running' = TRUE
    /\ txt_log' = <<[tag |-> "BEGIN", file |-> 0, total |-> 0, changed |-> 0,
                     run |-> runs + 1]>>
    /\ w_args' = [recursive |-> recursive, dryrun |-> dryrun, backup |-> backup,
                  rules |-> ActiveRules]
    /\ pc' = "start"
    /\ runs' = runs + 1
    /\ Failures(0)
    /\ call' = NoCall
    /\ UNCHANGED <<textVars, glossVars, disk, bak, rule_enabled, log_queue, history, after_pending,
                   w_files, w_i, w_changed, w_transformed, run_log_lines, snapshot_src>>

\* App._stop; a second press while the flag is set only repeats the message
Stop ==
    /\ running
    /\ ~stop_flag
    /\ stop_flag' = TRUE
    /\ txt_log' = Append(txt_log, Event("STOPPING", 0, 0, 0))
    /\ Failures(0)
    /\ call' = NoCall
    /\ UNCHANGED <<textVars, glossVars, disk, bak, rule_enabled, running, log_queue, history, after_pending,
                   workerVars, runs, snapshot_src>>

\* a consumer that puts what it takes from the queue above what it has shown
Poll_Prepends ==
    /\ log_queue # <<>>
    /\ txt_log' = log_queue \o txt_log
    /\ log_queue' = <<>>
    /\ Failures(0)
    /\ call' = NoCall
    /\ UNCHANGED <<textVars, glossVars, disk, bak, rule_enabled, running, stop_flag, history, after_pending,
                   workerVars, runs, snapshot_src>>

\* App._poll_log_queue, when the queue holds something
Poll ==
    /\ log_queue # <<>>
    /\ txt_log' = txt_log \o log_queue
    /\ log_queue' = <<>>
    /\ Failures(0)
    /\ call' = NoCall
    /\ UNCHANGED <<textVars, glossVars, disk, bak, rule_enabled, running, stop_flag, history, after_pending,
                   workerVars, runs, snapshot_src>>

\* the callback self.after(0, self._set_running, False)
AfterSetRunning ==
    /\ after_pending
    /\ after_pending' = FALSE
    /\ running' = FALSE
    /\ Failures(0)
    /\ call' = NoCall
    /\ UNCHANGED <<textVars, glossVars, disk, bak, rule_enabled, stop_flag, log_queue, txt_log, history,
                   workerVars, runs, snapshot_src>>

\* a call of revert_from_backup(path)
RevertFromBackup(f, outcome) ==
    LET r == revert_from_backup(f, outcome)
    IN  /\ bak[f] = Absent => outcome = "ok"
        /\ disk' = [disk EXCEPT ![f] = r.bytes]
        /\ Failures(IF outcome # "ok" THEN 1 ELSE 0)
        /\ call' = [NoCall EXCEPT !.op = "revert", !.path = f,
                                  !.existed = (bak[f] # Absent), !.ret = r.ret]
        /\ UNCHANGED <<textVars, glossVars, bak, rule_enabled, running, stop_flag, log_queue, txt_log,
                       history, after_pending, workerVars, runs, snapshot_src>>

\* App._revert_backups: revert_from_backup for every sidecar found, once the
\* user confirmed
RevertBackups(recursive, outcomes) ==
    LET backup_files == find_backup_files(recursive)
        success == {f \in backup_files : revert_from_backup(f, outcomes[f]).ret}
    IN  /\ backup_files # {}
        /\ \A f \in Files \ backup_files : outcomes[f] = "ok"
        /\ disk' = [f \in Files |-> IF f \in backup_files
                                    THEN revert_from_backup(f, outcomes[f]).bytes
                                    ELSE disk[f]]
        /\ Failures(Cardinality({f \in backup_files : outcomes[f] # "ok"}))
        /\ call' = [NoCall EXCEPT !.op = "revert_all", !.found = backup_files,
                                  !.done = success,
                                  !.n_done = Cardinality(success),
                                  !.n_errors = Cardinality(backup_files \ success)]
        /\ UNCHANGED <<textVars, glossVars, bak, rule_enabled, running, stop_flag, log_queue, txt_log,
                       history, after_pending, workerVars, runs, snapshot_src>>

\* App._clean_backups: clean_backup_files, once sidecars were found and the
\* user confirmed
CleanBackups(recursive, failed) ==
    LET found == find_backup_files(recursive)
        r == clean_backup_files(recursive, failed)
    IN  /\ found # {}
        /\ failed \subseteq found
        /\ bak' = r.bak
        /\ snapshot_src' = [f \in Files |-> IF r.bak[f] = Absent THEN Absent
                                            ELSE snapshot_src[f]]
        /\ Failures(Cardinality(failed))
        /\ call' = [NoCall EXCEPT !.op = "clean", !.found = found,
                                  !.done = found \ failed,
                                  !.n_done = r.deleted, !.n_errors = r.errors]
        /\ UNCHANGED <<textVars, glossVars, disk, rule_enabled, running, stop_flag, log_queue, txt_log,
                       history, after_pending, workerVars, runs>>

\* App._toggle_selected_rule: the enabled field of the selected rule object
\* is set in place, and the glossary is saved
ToggleRule(r) ==
    /\ rule_enabled' = [rule_enabled EXCEPT ![r] = ~@]
    /\ g_rules' = RulesOf(rule_enabled')
    /\ g_file' = Payload(g_rules')
    /\ Failures(0)
    /\ call' = NoCall
    /\ UNCHANGED <<textVars, g_call, disk, bak, running, stop_flag, log_queue, txt_log,
                   history, after_pending, workerVars, runs, snapshot_src>>

\* App._edit_rule: the fields of the rule object are set in place, and the
\* glossary is saved; the dialog returns the pattern and the replacement it
\* was opened with, and enabled as the user left the check box
EditRule(r, enabled) ==
    /\ rule_enabled' = [rule_enabled EXCEPT ![r] = enabled]
    /\ g_rules' = RulesOf(rule_enabled')
    /\ g_file' = Payload(g_rules')
    /\ Failures(0)
    /\ call' = NoCall
    /\ UNCHANGED <<textVars, g_call, disk, bak, running, stop_flag, log_queue, txt_log,
                   history, after_pending, workerVars, runs, snapshot_src>>

(***************************************************************************)
(* The worker thread, App._worker_run.  Each step holds one access to the  *)
(* file system, so that the GUI handlers interleave where they can.        *)
(***************************************************************************)
\* the file of the current iteration
CurFile == w_files[w_i]

\* the rule objects the worker holds, as they are now
RuleObject(r) ==
    GlossaryRule(RuleTable[r].pattern, RuleTable[r].replace, rule_enabled[r])

WorkerRules == [k \in 1..Len(w_args.rules) |-> RuleObject(w_args.rules[k])]

\* the end of an iteration: the message goes to the queue and to run_log_lines
Record(tag, inc) ==
    /\ log_queue' = Append(log_queue, Event(tag, CurFile, 0, 0))
    /\ run_log_lines' = Append(run_log_lines, Event(tag, CurFile, 0, 0))
    /\ w_changed' = w_changed + inc
    /\ w_i' = w_i + 1
    /\ w_transformed' = <<>>
    /\ pc' = "loop"

\* a handler that logs the error and leaves the loop
RecordError_LeavesLoop ==
    /\ log_queue' = Append(log_queue, Event("ERROR", CurFile, 0, 0))
    /\ run_log_lines' = Append(run_log_lines, Event("ERROR", CurFile, 0, 0))
    /\ w_changed' = w_changed
    /\ w_i' = w_i + 1
    /\ w_transformed' = <<>>
    /\ pc' = "summary"

\* except Exception as e: the error is logged and the loop goes on
RecordError == Record("ERROR", 0)

\* a worker that writes whatever the dry-run box says
ShouldWrite_Always == TRUE

\* if not dryrun
ShouldWrite == ~w_args.dryrun

\* if backup
ShouldBackup == w_args.backup

\* the message of the summary
SummaryEvent == Event("SUMMARY", 0, Len(w_files), w_changed)

\* files = list(iter_srt_files(root, recursive)), which is outside the try:
\* an exception there ends the thread
WorkerEnumerate(ok) ==
    /\ pc = "start"
    /\ IF ok
       THEN /\ w_files' = iter_srt_files(w_args.recursive)
            /\ w_i' = 1
            /\ pc' = "loop"
       ELSE /\ pc' = "dead"
            /\ UNCHANGED <<w_files, w_i>>
    /\ w_changed' = 0
    /\ run_log_lines' = <<>>
    /\ Failures(IF ok THEN 0 ELSE 1)
    /\ call' = [NoCall EXCEPT !.op = "enumerate", !.ret = ok]
    /\ UNCHANGED <<textVars, glossVars, disk, bak, rule_enabled, running, stop_flag, log_queue, txt_log,
                   history, after_pending, w_args, w_transformed, runs, snapshot_src>>

\* if self._stop_flag.is_set(): the message is queued and the loop is left
WorkerStopped ==
    /\ pc = "loop"
    /\ w_i <= Len(w_files)
    /\ stop_flag
    /\ log_queue' = Append(log_queue, Event("STOPPED", 0, 0, 0))
    /\ pc' = "summary"
    /\ Failures(0)
    /\ call' = NoCall
    /\ UNCHANGED <<textVars, glossVars, disk, bak, rule_enabled, running, stop_flag, txt_log, history,
                   after_pending, w_args, w_files, w_i, w_changed, w_transformed,
                   run_log_lines, runs, snapshot_src>>

\* the loop is exhausted
WorkerLoopEnd ==
    /\ pc = "loop"
    /\ w_i > Len(w_files)
    /\ pc' = "summary"
    /\ Failures(0)
    /\ call' = NoCall
    /\ UNCHANGED <<textVars, glossVars, disk, bak, rule_enabled, running, stop_flag, log_queue, txt_log,
                   history, after_pending, w_args, w_files, w_i, w_changed,
                   w_transformed, run_log_lines, runs, snapshot_src>>

\* detect_encoding, process_srt_text and the comparison
WorkerRead(read_ok) ==
    /\ pc = "loop"
    /\ w_i <= Len(w_files)
    /\ ~stop_flag
    /\ LET dec == detect_encoding(disk[CurFile], read_ok)
           res == process_srt_text(dec.text, WorkerRules)
       IN  /\ IF dec.exc # "none" \/ res.exc # "none" THEN RecordError
              ELSE IF res.text = dec.text THEN Record("OK", 0)
              ELSE IF ~ShouldWrite THEN Record("CHANGED", 1)
              ELSE /\ w_transformed' = res.text
                   /\ pc' = IF ShouldBackup THEN "backup" ELSE "write"
                   /\ UNCHANGED <<log_queue, run_log_lines, w_changed, w_i>>
           /\ call' = [NoCall EXCEPT !.op = "read", !.path = CurFile,
                                     !.existed = (bak[CurFile] # Absent),
                                     !.ret = (dec.exc = "none" /\ res.exc = "none")]
    /\ Failures(IF read_ok THEN 0 ELSE 1)
    /\ UNCHANGED <<textVars, glossVars, disk, bak, rule_enabled, running, stop_flag, txt_log, history,
                   after_pending, w_args, w_files, runs, snapshot_src>>

\* write_backup(srt)
WorkerBackup(outcome) ==
    /\ pc = "backup"
    /\ bak[CurFile] # Absent => outcome = "ok"
    /\ bak' = write_backup(CurFile, outcome)
    /\ snapshot_src' = IF bak[CurFile] = Absent /\ bak'[CurFile] # Absent
                       THEN [snapshot_src EXCEPT ![CurFile] = disk[CurFile]]
                       ELSE snapshot_src
    /\ IF write_backup_raises(CurFile, outcome) THEN RecordError
       ELSE /\ pc' = "write"
            /\ UNCHANGED <<log_queue, run_log_lines, w_changed, w_i, w_transformed>>
    /\ Failures(IF outcome # "ok" THEN 1 ELSE 0)
    /\ call' = [NoCall EXCEPT !.op = "write_backup", !.path = CurFile,
                              !.existed = (bak[CurFile] # Absent),
                              !.ret = ~write_backup_raises(CurFile, outcome)]
    /\ UNCHANGED <<textVars, glossVars, disk, rule_enabled, running, stop_flag, txt_log, history,
                   after_pending, w_args, w_files, runs>>

\* srt.write_text(transformed, encoding="utf-8"), then changed += 1
WorkerWrite(outcome) ==
    /\ pc = "write"
    /\ disk' = [disk EXCEPT ![CurFile] =
                    IF outcome = "ok" THEN EncodeUtf8(w_transformed)
                    ELSE IF outcome = "partial" THEN EmptyBytes
                    ELSE disk[CurFile]]
    /\ IF outcome = "ok" THEN Record("CHANGED", 1) ELSE RecordError
    /\ Failures(IF outcome # "ok" THEN 1 ELSE 0)
    /\ call' = [NoCall EXCEPT !.op = "write_text", !.path = CurFile,
                              !.existed = (bak[CurFile] # Absent),
                              !.ret = (outcome = "ok")]
    /\ UNCHANGED <<textVars, glossVars, bak, rule_enabled, running, stop_flag, txt_log, history,
                   after_pending, w_args, w_files, runs, snapshot_src>>

\* the row self.history.add_run(...) inserts
RunSummary ==
    [recursive     |-> w_args.recursive,
     dry_run       |-> w_args.dryrun,
     backup        |-> w_args.backup,
     files_total   |-> Len(w_files),
     files_changed |-> w_changed,
     rules_active  |-> Len(w_args.rules),
     log           |-> Append(run_log_lines, SummaryEvent)]

\* the summary is queued, the run is stored (db_ok: add_run does not raise),
\* and the finally clause schedules _set_running(False)
WorkerFinish(db_ok) ==
    /\ pc = "summary"
    /\ log_queue' = Append(log_queue, SummaryEvent)
    /\ run_log_lines' = Append(run_log_lines, SummaryEvent)
    /\ history' = IF db_ok THEN Append(history, RunSummary) ELSE history
    /\ after_pending' = TRUE
    /\ pc' = "done"
    /\ Failures(IF db_ok THEN 0 ELSE 1)
    /\ call' = [NoCall EXCEPT !.op = "add_run", !.ret = db_ok]
    /\ UNCHANGED <<textVars, glossVars, disk, bak, rule_enabled, running, stop_flag, txt_log, w_args,
                   w_files, w_i, w_changed, w_transformed, runs, snapshot_src>>

Worker ==
    \/ \E ok \in BOOLEAN : WorkerEnumerate(ok)
    \/ WorkerStopped
    \/ WorkerLoopEnd
    \/ \E read_ok \in BOOLEAN : WorkerRead(read_ok)
    \/ \E outcome \in WriteOutcomes : WorkerBackup(outcome)
    \/ \E outcome \in WriteOutcomes : WorkerWrite(outcome)
    \/ \E db_ok \in BOOLEAN : WorkerFinish(db_ok)

Gui ==
    \/ \E recursive, dryrun, backup \in BOOLEAN : Start(recursive, dryrun, backup)
    \/ Stop
    \/ Poll
    \/ AfterSetRunning
    \/ \E f \in Files, outcome \in WriteOutcomes : RevertFromBackup(f, outcome)
    \/ \E recursive \in BOOLEAN :
         \E outcomes \in [Files -> WriteOutcomes] : RevertBackups(recursive, outcomes)
    \/ \E recursive \in BOOLEAN :
         \E failed \in SUBSET Files : CleanBackups(recursive, failed)

Next == Worker \/ Gui

Spec == Init /\ [][Next]_vars

\* the threads are scheduled: the worker thread runs while it has a step to
\* take, and the Tk main loop runs the poll and the callbacks of after()
FairSpec ==
    Spec /\ WF_vars(Worker) /\ WF_vars(Poll) /\ WF_vars(AfterSetRunning)

\* the application while the user works in the glossary tab: runs are started
\* and stopped, and rules are toggled and edited at any moment
GlossaryTab ==
    \/ \E recursive, dryrun, backup \in BOOLEAN : Start(recursive, dryrun, backup)
    \/ Stop
    \/ Poll
    \/ AfterSetRunning
    \/ \E r \in RuleIds : ToggleRule(r)
    \/ \E r \in RuleIds, enabled \in BOOLEAN : EditRule(r, enabled)

EditNext == Worker \/ GlossaryTab

EditSpec == Init /\ [][EditNext]_vars

(***************************************************************************)
(* process_srt_text as a function of its arguments: texts of up to         *)
(* MaxLines lines and a few rule lists, among them rules that match digits *)
(* and time-like text and a rule whose replacement holds a line feed.      *)
(***************************************************************************)
MaxLines == 2

TimecodeLine ==
    <<"0", "0", ":", "0", "0", ":", "0", "1", ",", "0", "0", "0", " ", "-", "-", ">", " ",
      "0", "0", ":", "0", "0", ":", "0", "2", ",", "0", "0", "0">>

SampleLines == {<<"1">>, <<" ", "2">>, TimecodeLine, <<"a", "1">>, <<"b", "a">>, <<>>}

RECURSIVE SeqsUpTo(_, _)
SeqsUpTo(S, n) ==
    IF n = 0 THEN {<<>>}
    ELSE LET shorter == SeqsUpTo(S, n - 1)
         IN  shorter \cup {Append(q, x) : q \in shorter, x \in S}

SampleTexts ==
    {Join(ls, <<NL>>) \o tail : ls \in SeqsUpTo(SampleLines, MaxLines),
                               tail \in {<<>>, <<NL>>, <<CR>>, <<FF>>}}

RuleDigit == GlossaryRule(Str(<<"1">>), Str(<<"x">>), TRUE)

RuleColon == GlossaryRule(Str(<<":">>), Str(<<";">>), TRUE)

RuleAB == GlossaryRule(Str(<<"a">>), Str(<<"b">>), TRUE)

RuleBreak == GlossaryRule(Str(<<"a">>), Str(<<"x", BS, "n", "y">>), TRUE)

RuleBC == GlossaryRule(Str(<<"b">>), Str(<<"c">>), TRUE)

\* rules that import_json accepts and re.sub refuses
RuleUnclosed == GlossaryRule(Str(<<"(">>), Str(<<"x">>), TRUE)

RuleBadEscape == GlossaryRule(Str(<<"1">>), Str(<<BS, "q">>), TRUE)

RuleIntPattern == GlossaryRule(JsonInt, Str(<<"x">>), TRUE)

RuleIntReplace == GlossaryRule(Str(<<"1">>), JsonInt, TRUE)

\* rules the condition of apply_glossary leaves out
RuleNullReplace == GlossaryRule(Str(<<"1">>), JsonNull, TRUE)

RuleEmptyPattern == GlossaryRule(Str(<<>>), Str(<<"x">>), TRUE)

SampleRuleLists ==
    {<<>>, <<RuleDigit, RuleColon>>, <<RuleAB, RuleDigit>>, <<RuleBreak>>,
     <<[RuleAB EXCEPT !.enabled = FALSE], RuleColon>>,
     <<RuleAB, RuleBC>>, <<RuleBC, RuleAB>>,
     <<RuleAB, [RuleDigit EXCEPT !.enabled = FALSE], RuleBC>>,
     <<RuleAB, RuleUnclosed, RuleBC>>, <<RuleAB, RuleBadEscape, RuleBC>>,
     <<RuleAB, RuleIntPattern, RuleBC>>, <<RuleAB, RuleIntReplace, RuleBC>>,
     <<RuleNullReplace, RuleEmptyPattern, RuleBC>>}

\* texts for the default seed: up to MaxFragments pieces, one after the other
MaxFragments == 3

SeedFragments ==
    {<<"n", "u", "t">>, <<"n", "ú", "t">>, <<"N", "U", "T">>,
     <<"h", "i", "n", "h">>, <<"a", "n", "h">>, <<"h", "ì", "n", "h", " ", "ả", "n", "h">>,
     <<"t", "h", "u", "n", "g">>, <<"c", "h", "u", "a">>,
     <<"t", "h", "ù", "n", "g", " ", "c", "h", "ứ", "a">>,
     <<"t", "h", "ù", "n", "g", "c", "h", "ư", "a">>,
     <<" ">>, <<"x">>, <<"1">>, <<"α">>, <<NL>>}

SeedTexts == {Join(fs, <<>>) : fs \in SeqsUpTo(SeedFragments, MaxFragments)}

TextInit ==
    /\ SysInit([f \in Files |-> Undecodable])
    /\ \/ t_content \in SampleTexts /\ t_rules \in SampleRuleLists
       \/ t_content \in SeedTexts /\ t_rules = SeedRules
    /\ t_out = NoOutput
    /\ t_again = NoOutput
    /\ g_file = NoFile
    /\ g_rules = <<>>
    /\ g_call = NoGlossaryCall

\* a call process_srt_text(content, rules)
Transform ==
    /\ t_out = NoOutput
    /\ t_out' = process_srt_text(t_content, t_rules)
    /\ UNCHANGED <<sysVars, glossVars, t_content, t_rules, t_again>>

\* a call process_srt_text(transformed, rules) on what the first call returned
TransformAgain ==
    /\ t_out.exc = "none"
    /\ t_again = NoOutput
    /\ t_again' = process_srt_text(t_out.text, t_rules)
    /\ UNCHANGED <<sysVars, glossVars, t_content, t_rules, t_out>>

TextNext == Transform \/ TransformAgain

TextSpec == TextInit /\ [][TextNext]_vars

(***************************************************************************)
(* GlossaryManager as the application uses it: load at construction, then  *)
(* imports of files the user chooses.                                      *)
(***************************************************************************)
RecAB == JsonRecord(RuleKeys, Str(<<"a">>), Str(<<"b">>), TRUE)

RecShort == JsonRecord({"pattern", "replace"}, Str(<<"b">>), Str(<<"c">>), TRUE)

RecNoReplace == JsonRecord({"pattern", "enabled", "notes"}, Str(<<"a">>), JsonNull, TRUE)

RecExtra == JsonRecord(RuleKeys \cup {"extra"}, Str(<<"a">>), Str(<<"b">>), TRUE)

RecTyped == JsonRecord(RuleKeys, JsonInt, JsonNull, FALSE)

\* the texts a glossary file or an imported file holds
GlossFiles ==
    {NotJson, JsonNumber,
     JsonDoc({}, JsonNumber), JsonDoc({"version"}, JsonNumber),
     JsonDoc({"rules"}, JsonNumber),
     JsonDoc({"rules"}, JsonRecord({}, JsonNull, JsonNull, TRUE)),
     JsonDoc({"rules"}, JsonList(<<>>)),
     JsonDoc({"rules"}, JsonList(<<RecAB>>)),
     JsonDoc({"rules", "version"}, JsonList(<<RecAB, RecShort>>)),
     JsonDoc({"rules"}, JsonList(<<RecAB, RecNoReplace>>)),
     JsonDoc({"rules"}, JsonList(<<RecExtra>>)),
     JsonDoc({"rules"}, JsonList(<<RecTyped, RecAB>>)),
     JsonDoc({"rules"}, JsonList(<<RecAB, JsonString>>)),
     JsonList(<<RecAB>>), JsonList(<<RecNoReplace, RecAB>>)}

GlossInit ==
    /\ SysInit([f \in Files |-> Undecodable])
    /\ t_content = <<>>
    /\ t_rules = <<>>
    /\ t_out = NoOutput
    /\ t_again = NoOutput
    /\ g_file \in GlossFiles \cup {NoFile}
    /\ g_rules = <<>>
    /\ g_call = NoGlossaryCall

\* GlossaryManager.__init__: self.load()
Load(outcome) ==
    LET r == load(g_file, outcome)
    IN  /\ g_call.op = "none"
        /\ g_file # NoFile => outcome = "ok"
        /\ g_rules' = r.rules
        /\ g_file' = r.file
        /\ g_call' = [op |-> "load", before |-> g_file, data |-> NoFile,
                      rules_before |-> g_rules,
                      save |-> IF g_file = NoFile THEN outcome ELSE "none",
                      raised |-> r.raised]
        /\ UNCHANGED <<sysVars, textVars>>

\* App._import_glossary: self.glossary.import_json(Path(f)), the exception
\* shown in a message box
ImportGlossary(data, outcome) ==
    LET r == import_json(g_rules, g_file, data, outcome)
        reached == import_json(g_rules, g_file, data, "fail").file = g_file
                   /\ import_json(g_rules, g_file, data, "fail").raised
                   /\ import_json(g_rules, g_file, data, "ok").raised = FALSE
    IN  /\ g_call.op # "none"
        /\ ~(g_call.op = "load" /\ g_call.raised)
        /\ ~reached => outcome = "ok"
        /\ g_rules' = r.rules
        /\ g_file' = r.file
        /\ g_call' = [op |-> "import", before |-> g_file, data |-> data,
                      rules_before |-> g_rules,
                      save |-> IF reached THEN outcome ELSE "none",
                      raised |-> r.raised]
        /\ UNCHANGED <<sysVars, textVars>>

GlossNext ==
    \/ \E outcome \in WriteOutcomes : Load(outcome)
    \/ \E data \in GlossFiles, outcome \in WriteOutcomes : ImportGlossary(data, outcome)

GlossSpec == GlossInit /\ [][GlossNext]_vars

(***************************************************************************)
(* Vocabulary of the properties                                            *)
(***************************************************************************)
Last(q) == q[Len(q)]

OutcomeTags == {"CHANGED", "OK", "ERROR"}

\* the per-file outcomes among the entries of a log
Outcomes(log) == SelectSeq(log, LAMBDA e : e.tag \in OutcomeTags)

\* the outcomes and the summary of the current run among the entries of q
OfThisRun(q) ==
    SelectSeq(q, LAMBDA e : e.run = runs /\ e.tag \in OutcomeTags \cup {"SUMMARY"})

\* the worker of the current run has passed the enumeration
InRun == pc \in {"loop", "backup", "write", "summary", "done"}

\* the worker left the loop because the stop flag was set
RunStopped ==
    \E k \in 1..Len(txt_log \o log_queue) :
        LET e == (txt_log \o log_queue)[k] IN e.tag = "STOPPED" /\ e.run = runs

\* this step is a step of the worker thread
WorkerStep ==
    /\ pc \in {"start", "loop", "backup", "write", "summary"}
    /\ <<pc, w_i>>' # <<pc, w_i>>

(***************************************************************************)
(* C1.  Once a sidecar exists its bytes never change: they are the bytes   *)
(* the file held when write_backup was first called for it (since the last *)
(* clean), whatever happens to the file afterwards.                        *)
(* snapshot_src holds those bytes.                                         *)
(***************************************************************************)
C1_SidecarIsFirstSnapshot ==
    \A f \in Files : bak[f] # Absent => bak[f] = snapshot_src[f]

(***************************************************************************)
(* C2.  When the run is cancelled after k of the n files, the summary (the *)
(* row handed to history and the summary line of the log) gives k as the   *)
(* number of files, and the worker writes no file and creates no sidecar   *)
(* but those of the file it is processing, none once it left the loop.     *)
(***************************************************************************)
C2_CancelledSummaryCountsProcessed ==
    [][ /\ (pc' = "done" /\ RunStopped') =>
               /\ Last(run_log_lines').total = Len(Outcomes(run_log_lines'))
               /\ \A k \in 1..Len(history') :
                      history'[k].files_total = Len(Outcomes(history'[k].log))
        /\ WorkerStep =>
               \A f \in Files :
                   (pc \in {"start", "summary"} \/ w_i > Len(w_files) \/ f # CurFile)
                       => disk'[f] = disk[f] /\ bak'[f] = bak[f]
      ]_vars

(***************************************************************************)
(* C3.  In a run with backup and without dry-run, the sidecar of a file    *)
(* exists at the moment the file is overwritten; and when write_backup     *)
(* raises, the file is not written, its bytes stay, and the outcome of the *)
(* file is an error.                                                       *)
(***************************************************************************)
C3_NoOverwriteWithoutSidecar ==
    [][ /\ (call'.op = "write_text" /\ w_args.backup) => bak[call'.path] # Absent
        /\ (call'.op = "write_backup" /\ ~call'.ret) =>
               /\ disk' = disk
               /\ pc' = "loop"
               /\ Last(run_log_lines').tag = "ERROR"
               /\ Last(run_log_lines').file = call'.path
      ]_vars

(***************************************************************************)
(* C4.  In a batch that is not cancelled every enumerated file receives    *)
(* exactly one outcome, in order: a call that fails for a file (decoding,  *)
(* backup or write) gives that file an error outcome and the loop goes on  *)
(* to the next file, the files after it receive their own outcomes.        *)
(***************************************************************************)
C4_ErrorIsolatedPerFile ==
    InRun =>
        LET outs == Outcomes(run_log_lines)
        IN  /\ Len(outs) = w_i - 1
            /\ \A j \in 1..Len(outs) : outs[j].file = w_files[j]
            /\ (pc \in {"summary", "done"} /\ ~RunStopped) => Len(outs) = Len(w_files)
            /\ (call.op \in {"read", "write_backup", "write_text"} /\ ~call.ret) =>
                   /\ pc = "loop"
                   /\ Last(outs).tag = "ERROR"
                   /\ Last(outs).file = call.path

\* a finished batch of two files whose first file failed and whose second
\* file was changed
C4_Witness ==
    /\ pc = "done"
    /\ ~RunStopped
    /\ Len(w_files) = 2
    /\ Len(Outcomes(run_log_lines)) = 2
    /\ Outcomes(run_log_lines)[1].tag = "ERROR"
    /\ Outcomes(run_log_lines)[2].tag = "CHANGED"
    /\ faults = 1

(***************************************************************************)
(* C5.  Every run that was started eventually has its summary and the      *)
(* application is not running any more (Start is enabled again), whatever  *)
(* happened in the run, a failure of the enumeration of the files and a    *)
(* failure of the history included.                                        *)
(***************************************************************************)
C5_RunEndsWithSummary ==
    (pc = "start") ~>
        (/\ ~running
         /\ run_log_lines # <<>>
         /\ Last(run_log_lines).tag = "SUMMARY")

(***************************************************************************)
(* C6.  In a dry run no step of the worker changes a file or a sidecar,    *)
(* whether or not the backup option is set; a file whose transformed text  *)
(* differs from its text is logged as changed and counted, and the count   *)
(* of the summary is the number of files logged as changed.                *)
(***************************************************************************)
C6_DryRunLeavesFiles ==
    [][ (w_args.dryrun /\ WorkerStep) =>
            /\ disk' = disk
            /\ bak' = bak
            /\ (pc = "loop" /\ call'.op = "read" /\ call'.ret) =>
                   LET dec == detect_encoding(disk[CurFile], TRUE)
                       res == process_srt_text(dec.text, WorkerRules)
                   IN  res.text # dec.text =>
                           /\ run_log_lines' =
                                  Append(run_log_lines, Event("CHANGED", CurFile, 0, 0))
                           /\ w_changed' = w_changed + 1
            /\ pc' = "done" =>
                   Last(run_log_lines').changed =
                       Len(SelectSeq(run_log_lines', LAMBDA e : e.tag = "CHANGED"))
      ]_vars

\* a dry run with the backup option set has ended: a file is logged as
\* changed, counted in the summary, holds its bytes and has no sidecar
C6_Witness ==
    /\ pc = "done"
    /\ call.op = "add_run"
    /\ w_args.dryrun
    /\ w_args.backup
    /\ Last(run_log_lines).changed = 1
    /\ \E k \in 1..Len(run_log_lines) :
           /\ run_log_lines[k].tag = "CHANGED"
           /\ disk[run_log_lines[k].file] = Utf8(<<"1", NL, "a", NL>>)
           /\ bak[run_log_lines[k].file] = Absent

(***************************************************************************)
(* C7.  Every index line and every timecode line of the input stands       *)
(* unchanged at the same position among the lines of the output of         *)
(* process_srt_text, whatever the rules are.                               *)
(***************************************************************************)
C7_StructuralLinesKeepPlace ==
    t_out.exc = "none" =>
        LET lines == SplitLines(t_content)
            out_lines == SplitLines(t_out.text)
        IN  \A i \in 1..Len(lines) :
                is_index_line(lines[i]) \/ is_timecode_line(lines[i]) =>
                    i <= Len(out_lines) /\ out_lines[i] = lines[i]

(***************************************************************************)
(* C8 as stated.  revert_from_backup leaves the sidecar as it is; when the *)
(* sidecar exists the file holds the bytes of the sidecar afterwards and   *)
(* the call returns true; when it does not exist the call returns false    *)
(* and the file is unchanged.  A sidecar appears only by write_backup and  *)
(* disappears only by clean.                                               *)
(***************************************************************************)
SidecarLifecycle ==
    \A f \in Files :
        /\ (bak[f] = Absent /\ bak'[f] # Absent) =>
               call'.op = "write_backup" /\ call'.path = f
        /\ (bak[f] # Absent /\ bak'[f] = Absent) =>
               call'.op = "clean" /\ f \in call'.done

C8_RevertAlwaysRestores ==
    [][ /\ call'.op = "revert" =>
               /\ bak' = bak
               /\ call'.existed => call'.ret /\ disk'[call'.path] = bak[call'.path]
               /\ ~call'.existed => ~call'.ret /\ disk' = disk
        /\ SidecarLifecycle
      ]_vars

(***************************************************************************)
(* C8, amended.  revert_from_backup leaves the sidecar as it is.  When the *)
(* sidecar exists the call returns true exactly when the copy did not      *)
(* raise, and then the file holds the bytes of the sidecar; when the copy  *)
(* raises the call returns false.  When the sidecar does not exist the     *)
(* call returns false and the file is unchanged.  No other file changes.   *)
(* The revert of a folder leaves every sidecar as it is and every file it  *)
(* reports as reverted holds the bytes of its sidecar.  A sidecar appears  *)
(* only by write_backup and disappears only by clean.                      *)
(***************************************************************************)
C8_RevertReadsSidecar ==
    [][ /\ call'.op = "revert" =>
               /\ bak' = bak
               /\ call'.existed = (bak[call'.path] # Absent)
               /\ call'.existed =>
                      /\ call'.ret <=> (faults' = faults)
                      /\ call'.ret => disk'[call'.path] = bak[call'.path]
               /\ ~call'.existed => ~call'.ret /\ disk' = disk
               /\ \A f \in Files \ {call'.path} : disk'[f] = disk[f]
        /\ call'.op = "revert_all" =>
               /\ bak' = bak
               /\ \A f \in call'.done : disk'[f] = bak[f]
               /\ \A f \in Files \ call'.found : disk'[f] = disk[f]
        /\ SidecarLifecycle
      ]_vars

\* a revert has just put the bytes of an existing sidecar back into a file
\* that had been rewritten
C8_Witness ==
    /\ call.op = "revert"
    /\ call.existed
    /\ call.ret
    /\ disk[call.path] = bak[call.path]
    /\ \E k \in 1..Len(run_log_lines) :
           run_log_lines[k].tag = "CHANGED" /\ run_log_lines[k].file = call.path

(***************************************************************************)
(* C9.  clean_backup_files goes through every sidecar it found: a sidecar  *)
(* whose deletion fails does not keep the others from being deleted, the   *)
(* two counts add up to the number of sidecars found, and the first count  *)
(* is the number of those that exist no more.                              *)
(***************************************************************************)
C9_CleanCountsEverySidecar ==
    call.op = "clean" =>
        /\ call.n_done + call.n_errors = Cardinality(call.found)
        /\ call.n_done = Cardinality({f \in call.found : bak[f] = Absent})
        /\ \A f \in call.done : bak[f] = Absent
        /\ \A f \in call.found \ call.done : bak[f] # Absent

\* a clean found two sidecars, failed on the first and deleted the second
C9_Witness ==
    /\ call.op = "clean"
    /\ call.found = {1, 2}
    /\ call.done = {2}
    /\ call.n_done = 1
    /\ call.n_errors = 1

(***************************************************************************)
(* C10.  What the log shows of the current run followed by what is still   *)
(* in the queue is what the worker recorded, in the order it recorded it:  *)
(* one outcome per processed file in the order of the enumeration, and     *)
(* the summary after the last outcome.                                     *)
(***************************************************************************)
C10_EventsInOrder ==
    InRun =>
        /\ OfThisRun(txt_log) \o OfThisRun(log_queue) = run_log_lines
        /\ \A k \in 1..Len(run_log_lines) :
               IF run_log_lines[k].tag = "SUMMARY"
               THEN k = Len(run_log_lines) /\ pc = "done"
               ELSE run_log_lines[k].tag \in OutcomeTags /\ run_log_lines[k].file = w_files[k]
        /\ pc = "done" => Last(run_log_lines).tag = "SUMMARY"

\* the log shows the two outcomes and the summary of a run, polled in more
\* than one turn: the message of Stop stands between them
C10_Witness ==
    /\ pc = "done"
    /\ log_queue = <<>>
    /\ Len(OfThisRun(txt_log)) = 3
    /\ txt_log[Len(txt_log)].tag = "SUMMARY"
    /\ \E k \in 2..Len(txt_log) :
           txt_log[k].tag = "STOPPING" /\ txt_log[k - 1].tag \in OutcomeTags

(***************************************************************************)
(* C13.  apply_glossary gives each enabled rule the output of the enabled  *)
(* rule before it, and skips the disabled rules: for rules that replace    *)
(* one character by one character, every character of a dialogue line goes *)
(* through the enabled rules in list order, so that with [a->b, b->c] an   *)
(* "a" of the line becomes "c".                                            *)
(***************************************************************************)
SingleCharRule(r) ==
    /\ r.pattern.t = "str" /\ Len(r.pattern.s) = 1 /\ r.pattern.s[1] \notin {"(", BS}
    /\ r.replace.t = "str" /\ Len(r.replace.s) = 1 /\ r.replace.s[1] # BS

\* what the enabled rules, one after the other, make of the character ch
RECURSIVE CharThrough(_, _)
CharThrough(rules, ch) ==
    IF rules = <<>> THEN ch
    ELSE CharThrough(Tail(rules),
                     IF Head(rules).enabled /\ ch = Head(rules).pattern.s[1]
                     THEN Head(rules).replace.s[1]
                     ELSE ch)

C13_RulesCompose ==
    (t_out.exc # "not called" /\ \A k \in 1..Len(t_rules) : SingleCharRule(t_rules[k])) =>
        /\ t_out.exc = "none"
        /\ LET lines == SplitLines(t_content)
               out_lines == SplitLines(t_out.text)
           IN  \A i \in 1..Len(lines) :
                   ~IsPassThrough(lines[i]) =>
                       /\ i <= Len(out_lines)
                       /\ out_lines[i] =
                              [j \in 1..Len(lines[i]) |-> CharThrough(t_rules, lines[i][j])]

\* the line "ba" went through a->b, a disabled rule and b->c, and is "cc"
C13_Witness ==
    /\ Len(t_rules) = 3
    /\ t_rules[1] = RuleAB
    /\ ~t_rules[2].enabled
    /\ t_rules[3] = RuleBC
    /\ t_content = <<"b", "a">>
    /\ t_out = [exc |-> "none", text |-> <<"c", "c">>]

(***************************************************************************)
(* C14.  A rule whose pattern does not compile or whose substitution       *)
(* raises, a rule with a wrongly typed pattern or replacement included, is *)
(* skipped: process_srt_text returns, and what it returns is what the      *)
(* other rules alone give.                                                 *)
(***************************************************************************)
\* the rule passes the condition of apply_glossary and re.sub raises for it
RuleRaises(r) ==
    /\ r.enabled /\ Truthy(r.pattern) /\ r.replace.t # "null"
    /\ re_sub(r.pattern, r.replace, <<>>).exc # "none"

C14_BadRuleSkipped ==
    t_out.exc # "not called" =>
        /\ t_out.exc = "none"
        /\ t_out = process_srt_text(t_content, SelectSeq(t_rules, LAMBDA r : ~RuleRaises(r)))

(***************************************************************************)
(* C15.  The output of process_srt_text ends with a line terminator        *)
(* exactly when the input does, whichever terminator the input uses.       *)
(***************************************************************************)
EndsWithBreak(s) == s # <<>> /\ s[Len(s)] \in LineBreaks

C15_TrailingTerminatorKept ==
    t_out.exc = "none" => (EndsWithBreak(t_out.text) <=> EndsWithBreak(t_content))

(***************************************************************************)
(* C11.  After GlossaryManager.load(), when the glossary file was absent,  *)
(* or present but unreadable (not JSON, or holding a record that is not an *)
(* object with a pattern and a replacement), the rules in memory are the   *)
(* default seed and the file holds the default seed.  (A write that fails  *)
(* is left out of the statement.)                                          *)
(***************************************************************************)
Unreadable(file) ==
    \/ file = NotJson
    \/ /\ file.k = "dict" /\ "rules" \in file.keys /\ file.rules.k = "list"
       /\ \E i \in 1..Len(file.rules.items) :
              LET r == file.rules.items[i]
              IN  r.k # "dict" \/ ~({"pattern", "replace"} \subseteq r.keys)

C11_LoadFallsBackToSeed ==
    (/\ g_call.op = "load"
     /\ g_call.save \in {"none", "ok"}
     /\ (g_call.before = NoFile \/ Unreadable(g_call.before))) =>
        /\ g_rules = SeedRules
        /\ g_file = Payload(SeedRules)

(***************************************************************************)
(* C12.  For the rules of the default seed, process_srt_text applied to    *)
(* its own output returns that output.                                     *)
(***************************************************************************)
C12_SeedIdempotent ==
    (t_rules = SeedRules /\ t_again # NoOutput) => t_again = t_out

\* "hinh anh" became "Image", and the second call returned "Image" again
C12_Witness ==
    /\ t_rules = SeedRules
    /\ t_content = <<"h", "i", "n", "h", " ", "a", "n", "h">>
    /\ t_out = [exc |-> "none", text |-> <<"I", "m", "a", "g", "e">>]
    /\ t_again = t_out

(***************************************************************************)
(* C16.  When the imported file is malformed (not JSON, or neither an      *)
(* object whose "rules" is an array nor an array) or one of its records is *)
(* only partially rule-shaped (not an object with exactly the keys         *)
(* pattern, replace, enabled and notes), import_json raises, and the rules *)
(* in memory and the glossary file are what they were before the call.     *)
(***************************************************************************)
RecordsOf(data) ==
    IF data.k = "list" THEN data.items
    ELSE IF data.k = "dict" /\ "rules" \in data.keys /\ data.rules.k = "list"
         THEN data.rules.items
    ELSE <<>>

Malformed(data) ==
    /\ data.k # "list"
    /\ ~(data.k = "dict" /\ "rules" \in data.keys /\ data.rules.k = "list")

PartiallyShaped(r) == r.k # "dict" \/ r.keys # RuleKeys

C16_ImportAllOrNothing ==
    (/\ g_call.op = "import"
     /\ \/ Malformed(g_call.data)
        \/ \E i \in 1..Len(RecordsOf(g_call.data)) :
               PartiallyShaped(RecordsOf(g_call.data)[i])) =>
        /\ g_call.raised
        /\ g_rules = g_call.rules_before
        /\ g_file = g_call.before

(***************************************************************************)
(* C17.  The rules a run applies are those that were enabled when it was   *)
(* started, whatever is toggled or edited in the glossary while the worker *)
(* runs: each file is transformed by the rules as they were at the start,  *)
(* and the number of rules the run records is the number of rules it       *)
(* applies.                                                                *)
(***************************************************************************)
\* active_rules as App._start built the list: every rule of it enabled
RulesAtStart ==
    [k \in 1..Len(w_args.rules) |->
        GlossaryRule(RuleTable[w_args.rules[k]].pattern,
                     RuleTable[w_args.rules[k]].replace, TRUE)]

C17_RulesFixedAtStart ==
    [][ (pc = "loop" /\ call'.op = "read" /\ call'.ret) =>
            LET dec  == detect_encoding(disk[CurFile], TRUE)
                want == process_srt_text(dec.text, RulesAtStart)
            IN  /\ pc' = "loop" =>
                       Last(run_log_lines').tag =
                           (IF want.text = dec.text THEN "OK" ELSE "CHANGED")
                /\ pc' \in {"backup", "write"} => w_transformed' = want.text
                /\ Len(SelectSeq(WorkerRules, LAMBDA r : r.enabled)) = Len(w_args.rules)
      ]_vars

====
